---- MODULE Spec2Model ----
(***************************************************************************)
(* varball: a Monte Carlo simulation of how many innings a baseball-like   *)
(* game lasts (src/src/main.rs).  The model follows the program: main's    *)
(* validation of the two percentages, simulate_inning_counts handing the   *)
(* games of 0..num_games to the workers, Game::complete looping over the   *)
(* run checker (one draw at a time) and GameState::step, and the tally of  *)
(* each finished game in INNING_COUNTS.                                    *)
(*                                                                         *)
(* All run and inning fields are u8.  An overflowing `+=` panics in a      *)
(* build with overflow checks (cargo's dev profile) and wraps in a build   *)
(* without them (cargo's release profile): where one overflows, the model  *)
(* takes either outcome.                                                   *)
(***************************************************************************)
EXTENDS Integers, FiniteSets, Bags, TLC

VARIABLES
    opts,            \* Options (main.rs:21-41), as parsed from the command line
    pc,              \* position of main: "main", "simulate", "exited"
    result,          \* how the process ended: "running", "Err1", "Err2", "Ok", "Panic"
    next_game,       \* how many items of 0..num_games have been handed out
    wpc,             \* per worker: "idle", "run_checker", "filter", "inspect", "panicked"
    game,            \* per worker: the GameState of the Game it is playing
    sum,             \* per worker: the running total of the run checker's .sum()
    draws,           \* per worker: the draws of the current call that scored
    final,           \* per worker: the FinalScore that Game::complete just returned
    inning,          \* per worker: the inning that filter_map passed on to inspect
    count,           \* the items counted by .count() so far
    INNING_COUNTS,   \* the static histogram (main.rs:17-18), as the bag of its
                     \* indexes: an index has as many copies as its entry counts
    inning_counts,   \* the value simulate_inning_counts returned to main
    endings,         \* the bag of the ending innings of the completed games
    probe,           \* a GameState on which is_over and step are applied directly
    probe_calls      \* how many times step has been applied to probe

vars == <<opts, pc, result, next_game, wpc, game, sum, draws, final, inning,
          count, INNING_COUNTS, inning_counts, endings, probe, probe_calls>>

-----------------------------------------------------------------------------
(* Program constants *)

NUM_INNINGS_DEFAULT == 9

U8_MAX == 255

NUM_EXTRA_INNING_LENGTHS == U8_MAX - 10

\* thread_rng().gen_range(1..=100)
Draws == 1..100

-----------------------------------------------------------------------------
(* Bounds of the model *)

\* num_games ranges over 1..MaxGames
MaxGames == 2

\* the worker pool of the parallel mode
NumWorkers == 2

\* a draw scores a run only while the team at bat has fewer than MaxTeamRuns,
\* except in the one half-inning of BurstHalf, where the draws may score
\* until the u8 sum of the run checker is full
MaxTeamRuns == 1

\* one call of the run checker is followed for at most MaxDraws draws that
\* score: one more than its u8 sum can hold
MaxDraws == 256

\* the half-innings begun while the inning counter is in QuietFrom..QuietTo
\* are played scoreless (every draw fails): a long game is followed through
\* the whole u8 range of the inning counter, and scores only at its two ends
QuietFrom == 12

QuietTo == 253

\* is_over and step are applied directly to the GameStates whose run totals
\* are in 0..MaxProbeRuns or U8_MAX, with runs_scored drawn from the same set,
\* at most MaxProbeCalls times
MaxProbeRuns == 1

MaxProbeCalls == 2

\* the percentages tried on the command line
Percents == {0, 1, 50, 101}

\* the draws tried, of Draws: both sides of every percentage tried
DrawSamples == {1, 49, 50, 100}

Workers == 1..NumWorkers

-----------------------------------------------------------------------------
(* GameState, HalfInning, FinalScore *)

\* #[derive(Default)] GameState with HalfInning::default() = Bottom
DefaultGameState ==
    [home_team_runs |-> 0, away_team_runs |-> 0, inning |-> 0,
     half_inning |-> "Bottom"]

NoFinalScore == [home_team |-> 0, away_team |-> 0, inning |-> 0]

flip(h) == IF h = "Top" THEN "Bottom" ELSE "Top"

\* is_over with the top-half rule applied to every inning from the ninth on
is_over_top_of_any_inning(s) ==
    \/ /\ s.inning >= NUM_INNINGS_DEFAULT
       /\ s.half_inning = "Top"
       /\ s.home_team_runs > s.away_team_runs
    \/ /\ s.inning >= NUM_INNINGS_DEFAULT
       /\ s.half_inning = "Bottom"
       /\ s.home_team_runs # s.away_team_runs

\* is_over with the bottom-half rule not looking at the score
is_over_on_a_tie(s) ==
    \/ /\ s.inning = NUM_INNINGS_DEFAULT
       /\ s.half_inning = "Top"
       /\ s.home_team_runs > s.away_team_runs
    \/ /\ s.inning >= NUM_INNINGS_DEFAULT
       /\ s.half_inning = "Bottom"

\* is_over with the bottom-half rule applied one inning early
is_over_from_the_eighth(s) ==
    \/ /\ s.inning = NUM_INNINGS_DEFAULT
       /\ s.half_inning = "Top"
       /\ s.home_team_runs > s.away_team_runs
    \/ /\ s.inning >= NUM_INNINGS_DEFAULT - 1
       /\ s.half_inning = "Bottom"
       /\ s.home_team_runs # s.away_team_runs

is_over(s) ==
    \/ /\ s.inning = NUM_INNINGS_DEFAULT
       /\ s.half_inning = "Top"
       /\ s.home_team_runs > s.away_team_runs
    \/ /\ s.inning >= NUM_INNINGS_DEFAULT
       /\ s.half_inning = "Bottom"
       /\ s.home_team_runs # s.away_team_runs

\* u8 addition without overflow checks
wrapping_add(a, b) == (a + b) % (U8_MAX + 1)

\* whether a `+=` of step(runs_scored) overflows its u8
step_overflows(s, runs_scored) ==
    LET h == flip(s.half_inning)
    IN  /\ ~is_over(s)
        /\ \/ h = "Top" /\ s.inning + 1 > U8_MAX
           \/ /\ runs_scored > 0
              /\ h = "Top"
              /\ s.away_team_runs + runs_scored > U8_MAX
           \/ /\ runs_scored > 0
              /\ h = "Bottom"
              /\ s.home_team_runs + runs_scored > U8_MAX

\* step without its early return
step_when_over(s, runs_scored) ==
    LET h == IF s.half_inning = "Top" THEN "Bottom" ELSE "Top"
        i == IF h = "Top" THEN (s.inning + 1) % (U8_MAX + 1) ELSE s.inning
    IN  [half_inning    |-> h,
         inning         |-> i,
         away_team_runs |-> IF runs_scored > 0 /\ h = "Top"
                            THEN (s.away_team_runs + runs_scored) % (U8_MAX + 1)
                            ELSE s.away_team_runs,
         home_team_runs |-> IF runs_scored > 0 /\ h = "Bottom"
                            THEN (s.home_team_runs + runs_scored) % (U8_MAX + 1)
                            ELSE s.home_team_runs]

\* GameState::step with every `+=` wrapping; where step_overflows holds the
\* caller takes this result or the panic of a build that checks
step(s, runs_scored) ==
    IF is_over(s) THEN s
    ELSE LET h == flip(s.half_inning)
             i == IF h = "Top" THEN wrapping_add(s.inning, 1) ELSE s.inning
         IN  [half_inning    |-> h,
              inning         |-> i,
              away_team_runs |-> IF runs_scored > 0 /\ h = "Top"
                                 THEN wrapping_add(s.away_team_runs, runs_scored)
                                 ELSE s.away_team_runs,
              home_team_runs |-> IF runs_scored > 0 /\ h = "Bottom"
                                 THEN wrapping_add(s.home_team_runs, runs_scored)
                                 ELSE s.home_team_runs]

\* the FinalScore built at the end of Game::complete
FinalScoreOf(s) ==
    [home_team |-> s.home_team_runs, away_team |-> s.away_team_runs,
     inning |-> s.inning]

\* FinalScore::winner; "unreachable" is the Ordering::Equal arm
winner(f) ==
    IF f.home_team > f.away_team THEN "Home"
    ELSE IF f.home_team < f.away_team THEN "Away"
    ELSE "unreachable"

-----------------------------------------------------------------------------
(* The run checker closure of simulate_game *)

\* the percentage the closure compares each draw with
score_percent(s) ==
    IF s.inning > NUM_INNINGS_DEFAULT
    THEN opts.extra_innings_score_percent
    ELSE opts.regular_score_percent

\* the runs of the team that bats in the half-inning about to be played
BattingTeamRuns(s) ==
    IF flip(s.half_inning) = "Top" THEN s.away_team_runs ELSE s.home_team_runs

\* the half-inning in which the model follows a long run of scoring draws:
\* the top of the first extra inning
BurstHalf(s) == s.inning = NUM_INNINGS_DEFAULT /\ s.half_inning = "Bottom"

\* the model's bound on scoring: see MaxTeamRuns, QuietFrom, QuietTo
MayScore(s, acc) ==
    /\ BattingTeamRuns(s) + acc < MaxTeamRuns \/ BurstHalf(s)
    /\ ~(s.inning \in QuietFrom..QuietTo)

\* the model's bound on where the long run of BurstHalf ends: within
\* MaxTeamRuns, or with the u8 sum full
MayEnd(s, acc) ==
    ~BurstHalf(s) \/ BattingTeamRuns(s) + acc <= MaxTeamRuns \/ acc = U8_MAX

\* the model's bound on the length of a game: the first game of a run is
\* followed to its end, the later ones up to inning QuietFrom
Followed(s) == s.inning < QuietFrom \/ next_game = 1

-----------------------------------------------------------------------------
(* main's validation *)

regular_rejected(o) ==
    o.regular_score_percent < 1 \/ o.regular_score_percent > 99

extra_rejected(o) ==
    o.extra_innings_score_percent < 1 \/ o.regular_score_percent > 99

-----------------------------------------------------------------------------
(* The histogram *)

\* the indexes of the array INNING_COUNTS
InningIndexes == 0..(NUM_EXTRA_INNING_LENGTHS - 1)

\* INNING_COUNTS[inning_index].load(SeqCst)
load(counts, inning_index) == CopiesIn(inning_index, counts)

\* a load followed by a store of 1 in place of the atomic addition: the
\* update of a second game of the same length is lost
fetch_add_lost(counts, inning_index) ==
    [i \in BagToSet(counts) \cup {inning_index} |->
        IF i = inning_index THEN 1 ELSE counts[i]]

\* INNING_COUNTS[inning_index].fetch_add(1, SeqCst)
fetch_add(counts, inning_index) ==
    counts (+) SetToBag({inning_index})

inning_index_of(num_innings) == num_innings - 10

RECURSIVE SumOver(_, _)
SumOver(f, S) ==
    IF S = {} THEN 0
    ELSE LET x == CHOOSE y \in S : TRUE
         IN  f[x] + SumOver(f, S \ {x})

-----------------------------------------------------------------------------
(* Initial state *)

OptionsSet ==
    [num_games : 1..MaxGames,
     regular_score_percent : Percents,
     extra_innings_score_percent : Percents,
     skip_first_nine_innings : BOOLEAN,
     disable_parallel : BOOLEAN]

InitProgram ==
    /\ pc = "main"
    /\ result = "running"
    /\ next_game = 0
    /\ wpc = [w \in Workers |-> "idle"]
    /\ game = [w \in Workers |-> DefaultGameState]
    /\ sum = [w \in Workers |-> 0]
    /\ draws = [w \in Workers |-> 0]
    /\ final = [w \in Workers |-> NoFinalScore]
    /\ inning = [w \in Workers |-> 0]
    /\ count = 0
    /\ INNING_COUNTS = EmptyBag
    /\ inning_counts = 0
    /\ endings = EmptyBag

Init ==
    /\ opts \in OptionsSet
    /\ InitProgram
    /\ probe = DefaultGameState
    /\ probe_calls = 0

-----------------------------------------------------------------------------
(* main *)

\* main.rs:252-265: the two range checks, then the simulation starts
Validate ==
    /\ pc = "main"
    /\ IF regular_rejected(opts)
       THEN pc' = "exited" /\ result' = "Err1"
       ELSE IF extra_rejected(opts)
       THEN pc' = "exited" /\ result' = "Err2"
       ELSE pc' = "simulate" /\ result' = result
    /\ UNCHANGED <<opts, next_game, wpc, game, sum, draws, final, inning,
                   count, INNING_COUNTS, inning_counts, endings, probe, probe_calls>>

\* a panic unwinds into main and the process aborts
Aborts ==
    /\ pc' = "exited"
    /\ result' = "Panic"

\* worker w panics in its game or in the tally
Panics(w) ==
    /\ Aborts
    /\ wpc' = [wpc EXCEPT ![w] = "panicked"]

NoPanic == UNCHANGED <<pc, result>>

-----------------------------------------------------------------------------
(* simulate_inning_counts and sim_games! *)

\* the workers that take items: the calling thread alone with
\* --disable-parallel, the pool otherwise
ActiveWorkers == IF opts.disable_parallel THEN {1} ELSE Workers

\* w is inside simulate_game or holds the FinalScore it returned
Playing(w) == wpc[w] \in {"run_checker", "filter"}

\* Game::complete at the head of its loop, the game of w being in state s:
\* it calls the run checker when the game is not over; when it is over it
\* returns the FinalScore and the Game is dropped
complete(w, s) ==
    /\ sum' = [sum EXCEPT ![w] = 0]
    /\ draws' = [draws EXCEPT ![w] = 0]
    /\ IF is_over(s)
       THEN /\ final' = [final EXCEPT ![w] = FinalScoreOf(s)]
            /\ endings' = endings (+) SetToBag({s.inning})
            /\ game' = [game EXCEPT ![w] = DefaultGameState]
            /\ wpc' = [wpc EXCEPT ![w] = "filter"]
       ELSE /\ game' = [game EXCEPT ![w] = s]
            /\ wpc' = [wpc EXCEPT ![w] = "run_checker"]
            /\ UNCHANGED <<final, endings>>

\* a worker takes the next item of the range: simulate_game builds the Game,
\* sets its inning when the first nine are skipped, and calls complete().
\* A GameState and its random source are owned by one task, so the
\* half-innings of two games commute; the model lets one worker at a time be
\* inside simulate_game and interleaves the workers at the shared histogram.
simulate_game(w) ==
    /\ pc = "simulate"
    /\ w \in ActiveWorkers
    /\ wpc[w] = "idle"
    /\ next_game < opts.num_games
    /\ \A v \in Workers : ~Playing(v)
    /\ next_game' = next_game + 1
    /\ complete(w, IF opts.skip_first_nine_innings
                   THEN [DefaultGameState EXCEPT !.inning = NUM_INNINGS_DEFAULT]
                   ELSE DefaultGameState)
    /\ UNCHANGED <<opts, pc, result, inning, count, INNING_COUNTS,
                   inning_counts, probe, probe_calls>>

\* one draw of the run checker's take_while.  A draw below the percentage
\* adds 1 to the sum; the first draw that is not below it ends the sum,
\* Game::complete passes the sum to step and goes round its loop.
run_checker(w, d) ==
    /\ pc = "simulate"
    /\ wpc[w] = "run_checker"
    /\ IF d < score_percent(game[w])
       THEN /\ MayScore(game[w], sum[w])
            /\ draws[w] < MaxDraws
            /\ \/ /\ sum[w] + 1 > U8_MAX
                  /\ Panics(w)
                  /\ UNCHANGED <<sum, draws, game, final, endings>>
               \/ /\ sum' = [sum EXCEPT ![w] = wrapping_add(@, 1)]
                  /\ draws' = [draws EXCEPT ![w] = @ + 1]
                  /\ UNCHANGED <<game, wpc, final, endings>>
                  /\ NoPanic
       ELSE /\ Followed(game[w])
            /\ MayEnd(game[w], sum[w])
            /\ \/ /\ step_overflows(game[w], sum[w])
                  /\ Panics(w)
                  /\ UNCHANGED <<sum, draws, game, final, endings>>
               \/ /\ complete(w, step(game[w], sum[w]))
                  /\ NoPanic
    /\ UNCHANGED <<opts, next_game, inning, count, INNING_COUNTS,
                   inning_counts, probe, probe_calls>>

\* the closure of filter_map: it takes the inning of the FinalScore and
\* passes it on when the game went past NUM_INNINGS_DEFAULT; otherwise the
\* item is finished
filter_map(w) ==
    /\ pc = "simulate"
    /\ wpc[w] = "filter"
    /\ final' = [final EXCEPT ![w] = NoFinalScore]
    /\ IF final[w].inning > NUM_INNINGS_DEFAULT
       THEN /\ inning' = [inning EXCEPT ![w] = final[w].inning]
            /\ wpc' = [wpc EXCEPT ![w] = "inspect"]
       ELSE /\ inning' = inning
            /\ wpc' = [wpc EXCEPT ![w] = "idle"]
    /\ UNCHANGED <<opts, pc, result, next_game, game, sum, draws, count,
                   INNING_COUNTS, inning_counts, endings, probe, probe_calls>>

\* inspect calls update_inning_count on the inning passed on, and count
\* counts the item
update_inning_count(w) ==
    /\ pc = "simulate"
    /\ wpc[w] = "inspect"
    /\ IF inning_index_of(inning[w]) >= NUM_EXTRA_INNING_LENGTHS
       THEN Panics(w) /\ UNCHANGED <<INNING_COUNTS, count, inning>>
       ELSE /\ INNING_COUNTS' =
                   fetch_add(INNING_COUNTS, inning_index_of(inning[w]))
            /\ count' = count + 1
            /\ inning' = [inning EXCEPT ![w] = 0]
            /\ wpc' = [wpc EXCEPT ![w] = "idle"]
            /\ NoPanic
    /\ UNCHANGED <<opts, next_game, game, sum, draws, final, inning_counts,
                   endings, probe, probe_calls>>

\* simulate_inning_counts returns the count of the items passed on; main
\* prints and returns Ok(())
Return ==
    /\ pc = "simulate"
    /\ next_game = opts.num_games
    /\ \A w \in Workers : wpc[w] = "idle"
    /\ inning_counts' = count
    /\ pc' = "exited"
    /\ result' = "Ok"
    /\ UNCHANGED <<opts, next_game, wpc, game, sum, draws, final, inning,
                   count, INNING_COUNTS, endings, probe, probe_calls>>

Next ==
    \/ Validate
    \/ \E w \in Workers : simulate_game(w)
    \/ \E w \in Workers : \E d \in DrawSamples : run_checker(w, d)
    \/ \E w \in Workers : filter_map(w)
    \/ \E w \in Workers : update_inning_count(w)
    \/ Return

Spec == Init /\ [][Next]_vars

-----------------------------------------------------------------------------
(* is_over and step as functions of an arbitrary GameState *)

ProbeRuns == (0..MaxProbeRuns) \cup {U8_MAX}

ProbeStates ==
    [home_team_runs : ProbeRuns, away_team_runs : ProbeRuns,
     inning : 0..U8_MAX, half_inning : {"Top", "Bottom"}]

ProbeOptions ==
    [num_games |-> 1, regular_score_percent |-> 50,
     extra_innings_score_percent |-> 50, skip_first_nine_innings |-> FALSE,
     disable_parallel |-> TRUE]

InitState ==
    /\ opts = ProbeOptions
    /\ InitProgram
    /\ probe \in ProbeStates
    /\ probe_calls = 0

\* probe.step(runs_scored)
ProbeStep(runs_scored) ==
    /\ result = "running"
    /\ probe_calls < MaxProbeCalls
    /\ probe_calls' = probe_calls + 1
    /\ \/ /\ step_overflows(probe, runs_scored)
          /\ Aborts
          /\ probe' = probe
       \/ /\ probe' = step(probe, runs_scored)
          /\ NoPanic
    /\ UNCHANGED <<opts, next_game, wpc, game, sum, draws, final, inning,
                   count, INNING_COUNTS, inning_counts, endings>>

NextState == \E runs_scored \in ProbeRuns : ProbeStep(runs_scored)

SpecState == InitState /\ [][NextState]_vars

-----------------------------------------------------------------------------
(* Game::complete under fair draws: main and the workers keep running, and  *)
(* every draw value keeps being drawn.  The runs are those of one game with *)
(* extra_innings_score_percent = 1.                                         *)

InitFair ==
    /\ Init
    /\ opts.num_games = 1
    /\ opts.regular_score_percent \in {1, 50}
    /\ opts.extra_innings_score_percent = 1

FairSpec ==
    /\ InitFair
    /\ [][Next]_vars
    /\ WF_vars(Next)
    /\ \A d \in DrawSamples : SF_vars(\E w \in Workers : run_checker(w, d))

-----------------------------------------------------------------------------
(* Claims *)

InRange(p) == 1 <= p /\ p <= 99

\* the innings at which some completed game ended
EndingInnings == BagToSet(endings)

\* how many completed games went past NUM_INNINGS_DEFAULT
ExtraInningGames ==
    SumOver(endings, {n \in EndingInnings : n > NUM_INNINGS_DEFAULT})

\* the sum of all entries of INNING_COUNTS
HistogramTotal == SumOver(INNING_COUNTS, BagToSet(INNING_COUNTS))

\* the inning of the half-inning that the next step of s plays
InningPlayed(s) ==
    IF flip(s.half_inning) = "Top" THEN s.inning + 1 ELSE s.inning

\* C1: for every GameState, is_over() is true iff (half = Top and inning = 9
\* and home_runs > away_runs) or (half = Bottom and inning >= 9 and
\* home_runs != away_runs); it is false whenever inning < 9, whenever the
\* score is tied, and in the top half of any inning other than 9.
C1_IsOverIff ==
    /\ is_over(probe) <=>
          \/ /\ probe.half_inning = "Top"
             /\ probe.inning = 9
             /\ probe.home_team_runs > probe.away_team_runs
          \/ /\ probe.half_inning = "Bottom"
             /\ probe.inning >= 9
             /\ probe.home_team_runs # probe.away_team_runs
    /\ probe.inning < 9 => ~is_over(probe)
    /\ probe.home_team_runs = probe.away_team_runs => ~is_over(probe)
    /\ probe.half_inning = "Top" /\ probe.inning # 9 => ~is_over(probe)

\* a top half past the ninth with the home team ahead, which is not over,
\* after a walk-off in the top of the ninth was seen to be over
C1_Witness ==
    /\ probe_calls = 0
    /\ probe.half_inning = "Top"
    /\ probe.inning = 10
    /\ probe.home_team_runs > probe.away_team_runs
    /\ ~is_over(probe)
    /\ is_over([probe EXCEPT !.inning = 9])

\* C2: every FinalScore returned by Game::complete() has home_team #
\* away_team, so FinalScore::winner never reaches its Ordering::Equal arm.
C2_NeverTied ==
    \A w \in Workers :
        wpc[w] = "filter" =>
            /\ final[w].home_team # final[w].away_team
            /\ winner(final[w]) # "unreachable"

\* the second game of a run that skipped the first nine innings has
\* returned, won by the away team, the first having ended at another inning
C2_Witness ==
    /\ \E w \in Workers : wpc[w] = "filter" /\ winner(final[w]) = "Away"
    /\ opts.skip_first_nine_innings
    /\ Cardinality(EndingInnings) = 2

\* C3: for percentages in [1,99] the loop of Game::complete() terminates
\* under fair draws: a game that is being played eventually leaves the loop,
\* by reaching a state with is_over() = true and returning its FinalScore.
\* A run that is aborted has left the loop too, so that only a loop that
\* goes on for ever violates this.
C3_CompleteTerminates ==
    (InRange(opts.regular_score_percent) /\ InRange(opts.extra_innings_score_percent))
        => \A w \in Workers :
               (wpc[w] = "run_checker") ~> (wpc[w] \in {"filter", "panicked"})

\* C4: a completed game whose ending inning n is greater than 9 is passed
\* on and its tally increments exactly the histogram entry of inning n by
\* exactly 1 and the count by 1; a game that ended at inning 9 changes no
\* entry and no count.
C4_TallyExact ==
    [][\A w \in Workers :
          /\ (wpc[w] = "filter" /\ wpc'[w] # "filter") =>
                /\ INNING_COUNTS' = INNING_COUNTS
                /\ count' = count
                /\ IF final[w].inning > 9
                   THEN wpc'[w] = "inspect" /\ inning'[w] = final[w].inning
                   ELSE wpc'[w] = "idle"
          /\ (wpc[w] = "inspect" /\ wpc'[w] # "inspect") =>
                /\ \E i \in InningIndexes :
                      /\ i + 10 = inning[w]
                      /\ load(INNING_COUNTS', i) = load(INNING_COUNTS, i) + 1
                      /\ \A j \in InningIndexes \ {i} :
                             load(INNING_COUNTS', j) = load(INNING_COUNTS, j)
                /\ count' = count + 1]_vars

\* C5: when simulate_inning_counts has returned, whatever the order of the
\* workers' fetch_add calls, the entries of INNING_COUNTS sum to the returned
\* count, and the histogram and the count are those of the multiset of the
\* games' ending innings (so they are the same in both modes).
C5_NoLostUpdate ==
    result = "Ok" =>
        /\ HistogramTotal = inning_counts
        /\ \A i \in InningIndexes :
               load(INNING_COUNTS, i) = CopiesIn(i + 10, endings)
        /\ inning_counts = ExtraInningGames

\* a parallel run has returned after two games of the same extra-inning
\* length were tallied
C5_Witness ==
    /\ result = "Ok"
    /\ ~opts.disable_parallel
    /\ inning_counts = 2
    /\ \E i \in InningIndexes : load(INNING_COUNTS, i) = 2

\* C6: the runs of every half-inning of an inning greater than 9 are drawn
\* with extra_innings_score_percent, and the runs of every half-inning of
\* innings 1..9 with regular_score_percent.
C6_PercentOfInningPlayed ==
    \A w \in Workers :
        wpc[w] = "run_checker" =>
            score_percent(game[w]) =
                IF InningPlayed(game[w]) > 9
                THEN opts.extra_innings_score_percent
                ELSE opts.regular_score_percent

\* C7: with skip_first_nine_innings every completed game ends at an inning
\* >= 10 and every one of the num_games games is counted as an extra-inning
\* game: the returned count is num_games.
C7_SkipCountsEveryGame ==
    opts.skip_first_nine_innings =>
        /\ \A n \in EndingInnings : n >= 10
        /\ result = "Ok" => inning_counts = opts.num_games

\* C8: main exits with code 1 if regular_score_percent is outside [1,99],
\* with code 2 if extra_innings_score_percent is outside [1,99] and regular
\* is in range; whenever either is outside [1,99] no game is simulated and
\* the histogram stays all zero.
C8_Validation ==
    pc # "main" =>
        /\ ~InRange(opts.regular_score_percent) => result = "Err1"
        /\ (InRange(opts.regular_score_percent)
              /\ ~InRange(opts.extra_innings_score_percent)) => result = "Err2"
        /\ (~InRange(opts.regular_score_percent)
              \/ ~InRange(opts.extra_innings_score_percent)) =>
               /\ next_game = 0
               /\ \A i \in InningIndexes : load(INNING_COUNTS, i) = 0

\* C9: step is a no-op once the game is over: on a GameState with is_over()
\* = true, step(runs_scored) changes none of its four fields, for every
\* runs_scored and however often it is called.
C9_StepNoOpWhenOver ==
    [][is_over(probe) => probe' = probe]_vars

\* step has been called twice on a GameState that is over
C9_Witness ==
    /\ is_over(probe)
    /\ probe_calls = MaxProbeCalls
    /\ result = "running"

\* C10: in a game started from a fresh GameState every step flips the half,
\* raises the inning by exactly 1 when the new half is Top and leaves it
\* unchanged when the new half is Bottom; the inning never moves backwards.
\* The step that ends the game is read from the FinalScore it produces.
C10_StepAdvances ==
    [][\A w \in Workers :
          (~opts.skip_first_nine_innings /\ wpc[w] = "run_checker") =>
              /\ (wpc'[w] = "run_checker" /\ game'[w] # game[w]) =>
                    /\ game'[w].half_inning = flip(game[w].half_inning)
                    /\ game'[w].inning =
                           game[w].inning
                             + (IF game'[w].half_inning = "Top" THEN 1 ELSE 0)
                    /\ game'[w].inning >= game[w].inning
              /\ wpc'[w] = "filter" =>
                    final'[w].inning =
                        game[w].inning
                          + (IF flip(game[w].half_inning) = "Top"
                             THEN 1 ELSE 0)]_vars

\* the GameState that the step taken by worker w leaves behind: the Game's
\* state when the loop goes on, the state of the FinalScore when it ended
Stepped(w) ==
    /\ wpc[w] = "run_checker"
    /\ \/ wpc'[w] = "run_checker" /\ game'[w] # game[w]
       \/ wpc'[w] = "filter"

home_after(w) ==
    IF wpc'[w] = "filter" THEN final'[w].home_team ELSE game'[w].home_team_runs

away_after(w) ==
    IF wpc'[w] = "filter" THEN final'[w].away_team ELSE game'[w].away_team_runs

inning_after(w) ==
    IF wpc'[w] = "filter" THEN final'[w].inning ELSE game'[w].inning

\* C11: runs are only ever added: across every step, for every run count
\* the run checker returns, home_team_runs and away_team_runs after the step
\* are each at least their value before it, also when a total would pass 255.
C11_RunsNeverDecrease ==
    [][\A w \in Workers :
          Stepped(w) =>
              /\ home_after(w) >= game[w].home_team_runs
              /\ away_after(w) >= game[w].away_team_runs]_vars

\* C12: for every ending inning n in 10..255 update_inning_count(n) addresses
\* an existing entry of INNING_COUNTS, distinct entries for distinct n: the
\* inning that inspect hands to it always has its index n - 10 below
\* NUM_EXTRA_INNING_LENGTHS.
C12_IndexInRange ==
    /\ \A w \in Workers :
           wpc[w] = "inspect" =>
               /\ inning[w] \in 10..U8_MAX
               /\ inning_index_of(inning[w]) \in InningIndexes
    /\ \A m, n \in {inning[w] : w \in {v \in Workers : wpc[v] = "inspect"}} :
           m # n => inning_index_of(m) # inning_index_of(n)

\* C13: the inning counter never silently wraps: the step that would raise
\* the inning beyond 255 ends the run with a fatal error, so no game goes on
\* (or ends) with an inning that wrapped to a smaller number.
C13_InningNeverWraps ==
    [][\A w \in Workers :
          (Stepped(w) /\ game[w].inning = U8_MAX
              /\ flip(game[w].half_inning) = "Top") => result' = "Panic"]_vars

\* C14: on a not-over state step(runs_scored) credits the runs to exactly one
\* team, decided by the half after the flip: the away total grows by
\* runs_scored and the home total is unchanged when the new half is Top, the
\* home total grows by runs_scored and the away total is unchanged when it is
\* Bottom; step(0) changes neither total.
C14_CreditsOneTeam ==
    [][\A w \in Workers :
          Stepped(w) =>
              IF flip(game[w].half_inning) = "Top"
              THEN /\ away_after(w) = game[w].away_team_runs + sum[w]
                   /\ home_after(w) = game[w].home_team_runs
              ELSE /\ home_after(w) = game[w].home_team_runs + sum[w]
                   /\ away_after(w) = game[w].away_team_runs]_vars

\* C15: the run checker returns exactly the number of leading draws that are
\* less than the percentage, stopping at the first draw that is not: every
\* scoring draw raises the sum by 1, and the value handed to step is the
\* number of draws that scored (0 when the first draw fails), one less than
\* the draws consumed.
C15_CountsLeadingDraws ==
    [][\A w \in Workers :
          /\ (wpc[w] = "run_checker" /\ draws'[w] = draws[w] + 1) =>
                 sum'[w] = draws'[w]
          /\ Stepped(w) => sum[w] = draws[w]]_vars

\* C16: extra innings are only entered on a tie: in every state of a game
\* (with or without skip_first_nine_innings) the home team does not lead
\* in the top half of an inning >= 10, and a not-over state in the bottom
\* half of an inning >= 9 is tied.
C16_ExtraInningsOnATie ==
    \A w \in Workers :
        wpc[w] = "run_checker" =>
            /\ (game[w].inning >= 10 /\ game[w].half_inning = "Top") =>
                   game[w].home_team_runs <= game[w].away_team_runs
            /\ (game[w].inning >= 9 /\ game[w].half_inning = "Bottom") =>
                   game[w].home_team_runs = game[w].away_team_runs

\* C17: every FinalScore returned by Game::complete() has inning >= 9; a
\* game that ends in the top half ends at inning exactly 9 with the home team
\* ahead, and a game whose final inning is greater than 9 ends in the bottom
\* half.
C17_EndsAtNineOrLater ==
    [][\A w \in Workers :
          wpc'[w] = "filter" =>
              /\ final'[w].inning >= 9
              /\ wpc[w] = "run_checker" =>
                    /\ flip(game[w].half_inning) = "Top" =>
                           /\ final'[w].inning = 9
                           /\ final'[w].home_team > final'[w].away_team
                    /\ final'[w].inning > 9 =>
                           flip(game[w].half_inning) = "Bottom"]_vars

\* a game has ended past the ninth inning after another ended in the ninth
C17_Witness ==
    /\ \E w \in Workers : wpc[w] = "filter" /\ final[w].inning > 9
    /\ 9 \in EndingInnings

\* C18: for every pair of percentages that main's validation accepts, every
\* call of the run checker returns after finitely many draws: some draw
\* value of 1..100 is not less than the percentage in use.
C18_SomeDrawEnds ==
    pc = "simulate" =>
        \A w \in Workers :
            wpc[w] = "run_checker" =>
                \E d \in Draws : ~(d < score_percent(game[w]))

====
